---- MODULE Spec2Model ----
(***************************************************************************)
(* Model of the liquidity terminal's App component (src/unnamed/part_000): *)
(* the React state, the memoised weekly / aggregated / window derivations, *)
(* the default-anchor effect and the event handlers that change the state. *)
(*                                                                         *)
(* Representation                                                          *)
(*  - a Date is a record [y, m, d] of its local calendar fields            *)
(*    (getFullYear, getMonth()+1, getDate); timestamps are only compared,  *)
(*    and their order is the order of the calendar fields;                 *)
(*  - a category is a sequence of characters, so that String.includes is a *)
(*    real substring search;                                               *)
(*  - a formatted string (a key or a period name) is the sequence of the   *)
(*    pieces its template literal concatenates, numbers rendered with      *)
(*    ToString;                                                            *)
(*  - Chinese characters are written in pinyin, one token per character   *)
(*    ("nian" for the year sign, "yue" month, "di ... zhou" week number,   *)
(*    "shang-ban-yue" / "xia-ban-yue" first / second half of the month,    *)
(*    "qi chu yu e" opening balance, "xian jin bei yong" cash reserve);    *)
(*  - amounts are integers.                                                *)
(***************************************************************************)
EXTENDS Integers, Sequences, FiniteSets, TLC

VARIABLES
    viewType,        \* useState('weekly')
    selectedFilter,  \* useState(''): the anchor name
    incomes,         \* useState<DataItem[]>([])
    expenses,        \* useState<DataItem[]>([])
    emergencyFunds,  \* useState<DataItem[]>([])
    isDataLoaded,    \* useState(false)
    dragStartX,      \* useState<number | null>(null)
    isDragging,      \* useState(false)
    weeklyFullData,  \* the useMemo cache of step 1 (computed with the clock of that render)
    reading,         \* uploads whose file.arrayBuffer() has not resolved yet, in start order,
                     \* each with the number `no` of its handleFileUpload call
    started,         \* number of uploads started so far
    newest,          \* the greatest `no` among the uploads that reached their set calls
    effectPending,   \* the default-anchor effect is scheduled for the last commit
    today            \* what new Date() returns now

vars == <<viewType, selectedFilter, incomes, expenses, emergencyFunds, isDataLoaded,
          dragStartX, isDragging, weeklyFullData, reading, started, newest, effectPending,
          today>>

---------------------------------------------------------------------------
(* Bounds of the model *)

MaxUploads == 2

MaxItems == 2

(* Program constants *)

INITIAL_BALANCE == 1016000

threshold == 100

---------------------------------------------------------------------------
(* Dates *)

Date(y, m, d) == [y |-> y, m |-> m, d |-> d]

\* the order of Date.getTime() on calendar dates
Stamp(date) == (date.y * 12 + (date.m - 1)) * 31 + (date.d - 1)

\* number of the month since year 0, as new Date(y, m, 1) / setMonth(+1) walk it
MonthNo(y, m) == y * 12 + (m - 1)

getWeekIndex(day) == IF day <= 7 THEN 1 ELSE IF day <= 14 THEN 2 ELSE IF day <= 21 THEN 3 ELSE 4

getPeriodNameFromDate(date, vt) ==
    LET y == date.y
        m == date.m
        d == date.d
    IN  IF vt = "monthly" THEN <<ToString(y), "nian", ToString(m), "yue">>
        ELSE IF vt = "semi-monthly"
             THEN <<ToString(y), "nian", ToString(m), "yue ",
                    IF getWeekIndex(d) <= 2 THEN "shang-ban-yue" ELSE "xia-ban-yue">>
             ELSE <<ToString(y), "nian", ToString(m), "yue di", ToString(getWeekIndex(d)), "zhou">>

---------------------------------------------------------------------------
(* Strings *)

\* String.prototype.includes
Includes(s, sub) ==
    \E i \in 0..(Len(s) - Len(sub)) : SubSeq(s, i + 1, i + Len(sub)) = sub

OpeningBalanceMark == <<"qi", "chu", "yu", "e">>

CashReserveMark == <<"xian", "jin", "bei", "yong">>

\* m.toString().padStart(2, '0')
PadStart2(n) == IF n < 10 THEN <<"0", ToString(n)>> ELSE <<"", ToString(n)>>

\* `${y}-${mm}-W${w}`
WeekKey(y, m, w) == <<ToString(y), "-">> \o PadStart2(m) \o <<"-W", ToString(w)>>

---------------------------------------------------------------------------
(* Step 1: weeklyFullData *)

MinOf(S) == CHOOSE x \in S : \A z \in S : x <= z

\* the month loop with the inner loop stopping at w < 4
MonthWeeks_ThreeWeeks(firstMonth, lastMonth) ==
    [i \in 1..(3 * (lastMonth - firstMonth + 1)) |->
        LET mn == firstMonth + ((i - 1) \div 3)
            y  == mn \div 12
            m  == (mn % 12) + 1
            w  == ((i - 1) % 3) + 1
        IN  [year |-> y, month |-> m, week |-> w, key |-> WeekKey(y, m, w),
             income |-> 0, expense |-> 0, emergencyFund |-> 0]]

\* the while loop over months with the inner loop w = 1..4
MonthWeeks(firstMonth, lastMonth) ==
    [i \in 1..(4 * (lastMonth - firstMonth + 1)) |->
        LET mn == firstMonth + ((i - 1) \div 4)
            y  == mn \div 12
            m  == (mn % 12) + 1
            w  == ((i - 1) % 4) + 1
        IN  [year |-> y, month |-> m, week |-> w, key |-> WeekKey(y, m, w),
             income |-> 0, expense |-> 0, emergencyFund |-> 0]]

\* Array.prototype.findIndex on the key: 0-based, -1 when absent
FindKeyIndex(weeks, key) ==
    LET hits == {i \in 1..Len(weeks) : weeks[i].key = key}
    IN  IF hits = {} THEN -1 ELSE MinOf(hits) - 1

IsExcluded(item) ==
    Includes(item.category, OpeningBalanceMark) \/ Includes(item.category, CashReserveMark)

\* the key of an item built without padStart
ItemKey_NoPad(item) ==
    <<ToString(item.date.y), "-", "", ToString(item.date.m),
      "-W", ToString(getWeekIndex(item.date.d))>>

ItemKey(item) == WeekKey(item.date.y, item.date.m, getWeekIndex(item.date.d))

\* the exclusion applied to every field
PopulateOne_ExcludeAll(weeks, item, field) ==
    IF IsExcluded(item) THEN weeks
    ELSE LET t == FindKeyIndex(weeks, ItemKey(item))
         IN  IF t = -1 THEN weeks
             ELSE [weeks EXCEPT ![t + 1] = [@ EXCEPT ![field] = @ + item.amount]]

\* one iteration of populate's forEach
PopulateOne(weeks, item, field) ==
    IF field = "income" /\ IsExcluded(item) THEN weeks
    ELSE LET t == FindKeyIndex(weeks, ItemKey(item))
         IN  IF t = -1 THEN weeks
             ELSE [weeks EXCEPT ![t + 1] = [@ EXCEPT ![field] = @ + item.amount]]

RECURSIVE populate(_, _, _)
populate(weeks, items, field) ==
    IF items = <<>> THEN weeks
    ELSE populate(PopulateOne(weeks, Head(items), field), Tail(items), field)

\* the callback without `bal = closing`
RollStep_NoCarry(st, w) ==
    LET opening == st.bal
        closing == opening + w.income - w.expense
    IN  [bal |-> st.bal,
         out |-> Append(st.out,
                     [year |-> w.year, month |-> w.month, week |-> w.week,
                      key |-> w.key, income |-> w.income, expense |-> w.expense,
                      emergencyFund |-> w.emergencyFund,
                      opening |-> opening, closing |-> closing,
                      name |-> <<ToString(w.year), "nian", ToString(w.month), "yue di",
                                 ToString(w.week), "zhou">>])]

\* the weeks.map callback: st.bal is the closure variable bal, st.out the mapped prefix
RollStep(st, w) ==
    LET opening == st.bal
        closing == opening + w.income - w.expense
    IN  [bal |-> closing,
         out |-> Append(st.out,
                     [year |-> w.year, month |-> w.month, week |-> w.week,
                      key |-> w.key, income |-> w.income, expense |-> w.expense,
                      emergencyFund |-> w.emergencyFund,
                      opening |-> opening, closing |-> closing,
                      name |-> <<ToString(w.year), "nian", ToString(w.month), "yue di",
                                 ToString(w.week), "zhou">>])]

\* the map over weeks continued up to weeks[hi]: the weeks after the Len(st.out)
\* already mapped are visited one by one in index order (the stretch is halved
\* only to keep the evaluation shallow)
RECURSIVE RollTo(_, _, _)
RollTo(weeks, hi, st) ==
    LET lo == Len(st.out) + 1
    IN  IF lo > hi THEN st
        ELSE IF lo = hi THEN RollStep(st, weeks[lo])
        ELSE RollTo(weeks, hi, RollTo(weeks, (lo + hi) \div 2, st))

RollBalances(weeks) ==
    RollTo(weeks, Len(weeks), [bal |-> INITIAL_BALANCE, out |-> <<>>]).out

AllDates(inc, exp, ef) == [i \in 1..Len(inc \o exp \o ef) |-> (inc \o exp \o ef)[i].date]

\* curr and end of the month loop, as month numbers
RangeFirst(inc, exp, ef) ==
    LET all == AllDates(inc, exp, ef)
        minDate == CHOOSE d \in {all[i] : i \in 1..Len(all)} :
                       \A i \in 1..Len(all) : Stamp(d) <= Stamp(all[i])
    IN  MonthNo(minDate.y, minDate.m)

\* Math.max over the transaction dates alone
RangeLast_NoToday(inc, exp, ef, now) ==
    LET all == AllDates(inc, exp, ef)
        cands == {all[i] : i \in 1..Len(all)}
        maxDate == CHOOSE d \in cands : \A e \in cands : Stamp(d) >= Stamp(e)
    IN  MonthNo(maxDate.y, maxDate.m)

RangeLast(inc, exp, ef, now) ==
    LET all == AllDates(inc, exp, ef)
        cands == {all[i] : i \in 1..Len(all)} \cup {now}
        maxDate == CHOOSE d \in cands : \A e \in cands : Stamp(d) >= Stamp(e)
    IN  MonthNo(maxDate.y, maxDate.m)

\* the guard with the subtraction turned around
GuardFires_Reversed(first, last) == (first \div 12) - (last \div 12) > 10

GuardFires(first, last) == (last \div 12) - (first \div 12) > 10

\* the range taken from today's month when there is no date at all
WeeklyFullData_NoEmptyReturn(inc, exp, ef, now) ==
    IF Len(AllDates(inc, exp, ef)) = 0
    THEN RollBalances(MonthWeeks(MonthNo(now.y, now.m), MonthNo(now.y, now.m)))
    ELSE LET first == RangeFirst(inc, exp, ef)
             last  == RangeLast(inc, exp, ef, now)
         IN  IF GuardFires(first, last) THEN <<>>
             ELSE RollBalances(
                      populate(populate(populate(MonthWeeks(first, last),
                                                 inc, "income"),
                                        exp, "expense"),
                               ef, "emergencyFund"))

WeeklyFullData(inc, exp, ef, now) ==
    IF Len(AllDates(inc, exp, ef)) = 0 THEN <<>>
    ELSE LET first == RangeFirst(inc, exp, ef)
             last  == RangeLast(inc, exp, ef, now)
         IN  IF GuardFires(first, last) THEN <<>>
             ELSE RollBalances(
                      populate(populate(populate(MonthWeeks(first, last),
                                                 inc, "income"),
                                        exp, "expense"),
                               ef, "emergencyFund"))

---------------------------------------------------------------------------
(* Step 2: aggregatedData *)

SubTypeOf(w, vt) ==
    IF vt = "semi-monthly"
    THEN (IF w.week <= 2 THEN "shang-ban-yue" ELSE "xia-ban-yue")
    ELSE ""

\* the property name under which a week is grouped in `map`
GroupKey(w, vt) ==
    IF vt = "semi-monthly"
    THEN <<ToString(w.year), "-", ToString(w.month), "-", SubTypeOf(w, vt)>>
    ELSE <<ToString(w.year), "-", ToString(w.month)>>

GroupName(w, vt) ==
    IF vt = "semi-monthly"
    THEN <<ToString(w.year), "nian", ToString(w.month), "yue ", SubTypeOf(w, vt)>>
    ELSE <<ToString(w.year), "nian", ToString(w.month), "yue">>

\* the forEach body taking the opening from every week instead of the first one
GroupWeek_LastOpening(map, w, vt) ==
    LET key  == GroupKey(w, vt)
        hits == {i \in 1..Len(map) : map[i].key = key}
        base == IF hits = {}
                THEN Append(map, [key |-> key, name |-> GroupName(w, vt),
                                  year |-> w.year, month |-> w.month,
                                  subType |-> SubTypeOf(w, vt),
                                  income |-> 0, expense |-> 0, emergencyFund |-> 0,
                                  opening |-> w.opening, weeks |-> <<>>])
                ELSE map
        j    == IF hits = {} THEN Len(map) + 1 ELSE MinOf(hits)
    IN  [base EXCEPT ![j] = [@ EXCEPT !.income = @ + w.income,
                                      !.expense = @ + w.expense,
                                      !.opening = w.opening,
                                      !.weeks = Append(@, w)]]

\* one iteration of weeklyFullData.forEach; `map` is kept as the sequence of its
\* entries in insertion order, which is the order Object.values returns for
\* these non-numeric property names
GroupWeek(map, w, vt) ==
    LET key  == GroupKey(w, vt)
        hits == {i \in 1..Len(map) : map[i].key = key}
        base == IF hits = {}
                THEN Append(map, [key |-> key, name |-> GroupName(w, vt),
                                  year |-> w.year, month |-> w.month,
                                  subType |-> SubTypeOf(w, vt),
                                  income |-> 0, expense |-> 0, emergencyFund |-> 0,
                                  opening |-> w.opening, weeks |-> <<>>])
                ELSE map
        j    == IF hits = {} THEN Len(map) + 1 ELSE MinOf(hits)
    IN  [base EXCEPT ![j] = [@ EXCEPT !.income = @ + w.income,
                                      !.expense = @ + w.expense,
                                      !.weeks = Append(@, w)]]

\* weeklyFullData.forEach continued up to weekly[hi]: st.seen weeks are already
\* grouped into st.map, the next ones are visited in index order
RECURSIVE GroupTo(_, _, _, _)
GroupTo(weekly, hi, vt, st) ==
    LET lo == st.seen + 1
    IN  IF lo > hi THEN st
        ELSE IF lo = hi THEN [map |-> GroupWeek(st.map, weekly[lo], vt), seen |-> lo]
        ELSE GroupTo(weekly, hi, vt, GroupTo(weekly, (lo + hi) \div 2, vt, st))

\* weeklyFullData.find(w => w.year === y && w.month === m && w.week === wk):
\* its 0-based position, -1 for undefined
FindWeek(weekly, y, m, wk) ==
    LET hits == {i \in 1..Len(weekly) :
                    weekly[i].year = y /\ weekly[i].month = m /\ weekly[i].week = wk}
    IN  IF hits = {} THEN -1 ELSE MinOf(hits) - 1

SnapshotWeek(it, vt) ==
    IF vt = "semi-monthly"
    THEN (IF it.subType = "shang-ban-yue" THEN 2
          ELSE IF it.subType = "xia-ban-yue" THEN 4 ELSE 0)
    ELSE IF vt = "monthly" THEN 4 ELSE 0

\* the emergency fund accumulated like income and expense
EfValue_Sum(it, weekly, vt) ==
    LET RECURSIVE Total(_)
        Total(q) == IF q = <<>> THEN 0 ELSE Head(q).emergencyFund + Total(Tail(q))
    IN  Total(it.weeks)

EfValue(it, weekly, vt) ==
    LET wk == SnapshotWeek(it, vt)
        at == IF wk = 0 THEN -1 ELSE FindWeek(weekly, it.year, it.month, wk)
    IN  IF at = -1 THEN 0 ELSE weekly[at + 1].emergencyFund

\* the callback taking the closing of the first constituent week
FinishPeriod_FirstClosing(it, weekly, vt) ==
    [name |-> it.name, year |-> it.year, month |-> it.month, subType |-> it.subType,
     income |-> it.income, expense |-> it.expense,
     emergencyFund |-> EfValue(it, weekly, vt),
     opening |-> it.opening, weeks |-> it.weeks,
     closing |-> it.weeks[1].closing,
     net |-> it.income - it.expense]

\* the Object.values(map).map callback
FinishPeriod(it, weekly, vt) ==
    [name |-> it.name, year |-> it.year, month |-> it.month, subType |-> it.subType,
     income |-> it.income, expense |-> it.expense,
     emergencyFund |-> EfValue(it, weekly, vt),
     opening |-> it.opening, weeks |-> it.weeks,
     closing |-> it.weeks[Len(it.weeks)].closing,
     net |-> it.income - it.expense]

AggregatedData(weekly, vt) ==
    IF vt = "weekly" THEN weekly
    ELSE LET map == GroupTo(weekly, Len(weekly), vt, [map |-> <<>>, seen |-> 0]).map
         IN  [i \in 1..Len(map) |-> FinishPeriod(map[i], weekly, vt)]

aggregatedData == AggregatedData(weeklyFullData, viewType)

---------------------------------------------------------------------------
(* Window *)

\* Array.prototype.findIndex on the name: 0-based, -1 when absent
FindNameIndex(periods, name) ==
    LET hits == {i \in 1..Len(periods) : periods[i].name = name}
    IN  IF hits = {} THEN -1 ELSE MinOf(hits) - 1

\* Array.prototype.slice(from, to), negative indices counted from the end
Slice(s, from, to) ==
    LET n == Len(s)
        a == IF from < 0 THEN (IF n + from < 0 THEN 0 ELSE n + from)
             ELSE (IF from > n THEN n ELSE from)
        b == IF to < 0 THEN (IF n + to < 0 THEN 0 ELSE n + to)
             ELSE (IF to > n THEN n ELSE to)
    IN  SubSeq(s, a + 1, b)

DisplayBlocks(periods, anchor, loaded) ==
    IF ~loaded THEN <<>>
    ELSE LET idx == FindNameIndex(periods, anchor)
         IN  IF idx = -1 THEN Slice(periods, -4, Len(periods))
             ELSE Slice(periods, idx, idx + 4)

displayBlocks == DisplayBlocks(aggregatedData, selectedFilter, isDataLoaded)

\* the effect falling back to the first period
DefaultAnchor_First(periods, vt, now) ==
    LET todayName == getPeriodNameFromDate(now, vt)
        exists == \E i \in 1..Len(periods) : periods[i].name = todayName
    IN  IF exists THEN todayName ELSE periods[1].name

\* what the default-anchor effect passes to setSelectedFilter
DefaultAnchor(periods, vt, now) ==
    LET todayName == getPeriodNameFromDate(now, vt)
        exists == \E i \in 1..Len(periods) : periods[i].name = todayName
    IN  IF exists THEN todayName ELSE periods[Len(periods)].name

---------------------------------------------------------------------------
(* Inputs: what an uploaded workbook parses to, and the clock *)

Item(date, amount, category) == [date |-> date, amount |-> amount, category |-> category]

CatSales   == <<"xiao", "shou">>
CatOpening == <<"qi", "chu", "yu", "e", "-", "2", "0", "2", "4">>
CatReserve == <<"zong", "bu", "xian", "jin", "bei", "yong", "jin">>
CatNear    == <<"qi", "chu", "xian", "jin">>

DayOld    == Date(2015, 3, 10)
DayNovW1  == Date(2025, 11, 5)
DayNovW4  == Date(2025, 11, 25)
DayDecW2  == Date(2025, 12, 10)
DayFebW3  == Date(2026, 2, 16)

IncomeItems ==
    { Item(DayNovW1, 5000, CatSales),
      Item(DayDecW2, 1000000, CatOpening),
      Item(DayNovW4, 300, CatReserve),
      Item(DayNovW4, -70, CatNear) }

ExpenseItems ==
    { Item(DayDecW2, 2000, CatSales),
      Item(DayNovW4, 40, CatSales),
      Item(DayNovW1, 9, CatOpening) }

EmergencyItems ==
    { Item(DayNovW1, 10, CatSales),
      Item(DayNovW4, 20, CatOpening),
      Item(DayDecW2, 7, CatReserve),
      Item(DayFebW3, 5, CatSales) }

SeqsUpTo(S, n) == UNION {[1..k -> S] : k \in 0..n}

File(ok, inc, exp, ef) == [ok |-> ok, incomes |-> inc, expenses |-> exp, emergency |-> ef]

\* every workbook of at most MaxItems rows over the three sheets
RecentFiles ==
    UNION { UNION { { File(TRUE, inc, exp, ef) :
                        ef \in SeqsUpTo(EmergencyItems, MaxItems - Len(inc) - Len(exp)) } :
                    exp \in SeqsUpTo(ExpenseItems, MaxItems - Len(inc)) } :
            inc \in SeqsUpTo(IncomeItems, MaxItems) }

\* the workbooks of at most one row, with an expense of 2015 before the other rows
OldFiles ==
    { File(TRUE, f.incomes, <<Item(DayOld, 40, CatSales)>> \o f.expenses, f.emergency) :
        f \in {g \in RecentFiles : Len(g.incomes) + Len(g.expenses) + Len(g.emergency) <= 1} }

DataFiles == RecentFiles \cup OldFiles

\* the workbooks of the interactive specification: two with rows, an empty one
\* and one that fails to parse
UIFiles ==
    { File(TRUE, <<Item(DayDecW2, 5000, CatSales)>>, <<Item(DayDecW2, 2000, CatSales)>>,
                 <<Item(DayFebW3, 5, CatSales)>>),
      File(TRUE, <<Item(DayNovW4, 1000000, CatOpening)>>, <<>>,
                 <<Item(DayNovW1, 10, CatSales), Item(DayNovW4, 20, CatOpening)>>),
      File(TRUE, <<>>, <<>>, <<>>),
      File(FALSE, <<>>, <<>>, <<>>) }

Clock == <<Date(2025, 12, 30), Date(2026, 1, 3)>>

ViewTypes == {"weekly", "semi-monthly", "monthly"}

ClientXs == {0, 60, 200}

---------------------------------------------------------------------------
(* The component *)

Init ==
    /\ viewType = "weekly"
    /\ selectedFilter = <<>>
    /\ incomes = <<>>
    /\ expenses = <<>>
    /\ emergencyFunds = <<>>
    /\ isDataLoaded = FALSE
    /\ dragStartX = <<>>
    /\ isDragging = FALSE
    /\ weeklyFullData = <<>>
    /\ reading = <<>>
    /\ started = 0
    /\ newest = 0
    /\ effectPending = FALSE
    /\ today = Clock[1]

\* handleFileUpload up to its await: the file input exists on the upload screen only
HandleFileUpload(f) ==
    /\ ~isDataLoaded
    /\ started < MaxUploads
    /\ reading' = Append(reading, [ok |-> f.ok, incomes |-> f.incomes,
                                    expenses |-> f.expenses, emergency |-> f.emergency,
                                    no |-> started + 1])
    /\ started' = started + 1
    /\ UNCHANGED <<viewType, selectedFilter, incomes, expenses, emergencyFunds, isDataLoaded,
                   dragStartX, isDragging, weeklyFullData, newest, effectPending, today>>

RemoveAt(s, i) == SubSeq(s, 1, i - 1) \o SubSeq(s, i + 1, Len(s))

\* handleFileUpload after its await, for the i-th read in flight: the four set
\* calls and the re-render they cause, or the catch branch
FileRead(i) ==
    /\ i \in 1..Len(reading)
    /\ reading' = RemoveAt(reading, i)
    /\ IF reading[i].ok
       THEN /\ incomes' = reading[i].incomes
            /\ expenses' = reading[i].expenses
            /\ emergencyFunds' = reading[i].emergency
            /\ isDataLoaded' = TRUE
            /\ weeklyFullData' = WeeklyFullData(reading[i].incomes, reading[i].expenses,
                                                reading[i].emergency, today)
            /\ effectPending' = TRUE
            /\ newest' = IF reading[i].no > newest THEN reading[i].no ELSE newest
       ELSE UNCHANGED <<incomes, expenses, emergencyFunds, isDataLoaded, weeklyFullData,
                        effectPending, newest>>
    /\ UNCHANGED <<viewType, selectedFilter, dragStartX, isDragging, started, today>>

\* the re-upload button: setIsDataLoaded(false); setIncomes([]); setExpenses([])
Reupload ==
    /\ isDataLoaded
    /\ isDataLoaded' = FALSE
    /\ incomes' = <<>>
    /\ expenses' = <<>>
    /\ weeklyFullData' = WeeklyFullData(<<>>, <<>>, emergencyFunds, today)
    /\ effectPending' = TRUE
    /\ UNCHANGED <<viewType, selectedFilter, emergencyFunds, dragStartX, isDragging,
                   reading, started, newest, today>>

\* the granularity <select>
SetViewType(v) ==
    /\ isDataLoaded
    /\ v # viewType
    /\ viewType' = v
    /\ effectPending' = TRUE
    /\ UNCHANGED <<selectedFilter, incomes, expenses, emergencyFunds, isDataLoaded,
                   dragStartX, isDragging, weeklyFullData, reading, started, newest, today>>

\* the anchor <select>: one option per aggregated period
SelectFilter(i) ==
    /\ isDataLoaded
    /\ i \in 1..Len(aggregatedData)
    /\ selectedFilter' = aggregatedData[i].name
    /\ UNCHANGED <<viewType, incomes, expenses, emergencyFunds, isDataLoaded,
                   dragStartX, isDragging, weeklyFullData, reading, started, newest,
                   effectPending, today>>

\* the useEffect on [viewType, isDataLoaded, aggregatedData]
DefaultAnchorEffect ==
    /\ effectPending
    /\ effectPending' = FALSE
    /\ selectedFilter' = IF Len(aggregatedData) > 0
                         THEN DefaultAnchor(aggregatedData, viewType, today)
                         ELSE selectedFilter
    /\ UNCHANGED <<viewType, incomes, expenses, emergencyFunds, isDataLoaded,
                   dragStartX, isDragging, weeklyFullData, reading, started, newest, today>>

\* left button pressed on the main screen
HandleMouseDown(x) ==
    /\ isDataLoaded
    /\ dragStartX' = <<x>>
    /\ isDragging' = TRUE
    /\ UNCHANGED <<viewType, selectedFilter, incomes, expenses, emergencyFunds, isDataLoaded,
                   weeklyFullData, reading, started, newest, effectPending, today>>

Abs(n) == IF n < 0 THEN -n ELSE n

\* the step with the two directions exchanged
StepAnchor_Swapped(periods, anchor, diff) ==
    LET currentIndex == FindNameIndex(periods, anchor)
    IN  IF diff < 0
        THEN (IF currentIndex > 0 THEN periods[currentIndex].name ELSE anchor)
        ELSE (IF currentIndex < Len(periods) - 1 THEN periods[currentIndex + 2].name
              ELSE anchor)

\* the anchor a drag of `diff` pixels selects
StepAnchor(periods, anchor, diff) ==
    LET currentIndex == FindNameIndex(periods, anchor)
    IN  IF diff > 0
        THEN (IF currentIndex > 0 THEN periods[currentIndex].name ELSE anchor)
        ELSE (IF currentIndex < Len(periods) - 1 THEN periods[currentIndex + 2].name
              ELSE anchor)

HandleMouseMove(x) ==
    /\ isDragging /\ dragStartX # <<>> /\ isDataLoaded
    /\ LET diff == x - dragStartX[1]
       IN  IF Abs(diff) > threshold
           THEN /\ selectedFilter' = StepAnchor(aggregatedData, selectedFilter, diff)
                /\ dragStartX' = <<x>>
           ELSE UNCHANGED <<selectedFilter, dragStartX>>
    /\ UNCHANGED <<viewType, incomes, expenses, emergencyFunds, isDataLoaded, isDragging,
                   weeklyFullData, reading, started, newest, effectPending, today>>

\* onMouseUp and onMouseLeave
HandleMouseUp ==
    /\ isDataLoaded
    /\ isDragging' = FALSE
    /\ dragStartX' = <<>>
    /\ UNCHANGED <<viewType, selectedFilter, incomes, expenses, emergencyFunds, isDataLoaded,
                   weeklyFullData, reading, started, newest, effectPending, today>>

\* the calendar moves on
Tick ==
    /\ \E i \in 1..(Len(Clock) - 1) : today = Clock[i] /\ today' = Clock[i + 1]
    /\ UNCHANGED <<viewType, selectedFilter, incomes, expenses, emergencyFunds, isDataLoaded,
                   dragStartX, isDragging, weeklyFullData, reading, started, newest,
                   effectPending>>

Next ==
    \/ \E f \in UIFiles : HandleFileUpload(f)
    \/ \E i \in 1..Len(reading) : FileRead(i)
    \/ Reupload
    \/ \E v \in ViewTypes : SetViewType(v)
    \/ \E i \in 1..Len(aggregatedData) : SelectFilter(i)
    \/ DefaultAnchorEffect
    \/ \E x \in ClientXs : HandleMouseDown(x)
    \/ \E x \in ClientXs : HandleMouseMove(x)
    \/ HandleMouseUp
    \/ Tick

Spec == Init /\ [][Next]_vars

\* the pipeline on every workbook of DataFiles: one upload, then granularity
\* changes and the re-upload button
FirstUpload(f) == started = 0 /\ HandleFileUpload(f)

NextData ==
    \/ \E f \in DataFiles : FirstUpload(f)
    \/ FileRead(1)
    \/ Reupload
    \/ \E v \in ViewTypes : SetViewType(v)
    \/ DefaultAnchorEffect
    \/ Tick

SpecData == Init /\ [][NextData]_vars

TypeOK ==
    /\ viewType \in ViewTypes
    /\ isDataLoaded \in BOOLEAN
    /\ isDragging \in BOOLEAN
    /\ effectPending \in BOOLEAN
    /\ started \in 0..MaxUploads
    /\ Len(reading) <= started
    /\ newest \in 0..started

---------------------------------------------------------------------------
(* Vocabulary of the properties *)

\* day 1-7 is week 1, 8-14 week 2, 15-21 week 3, 22 to the end week 4
InWeek(d, wk) ==
    \/ wk = 1 /\ d \in 1..7
    \/ wk = 2 /\ d \in 8..14
    \/ wk = 3 /\ d \in 15..21
    \/ wk = 4 /\ d >= 22

\* the item's date lies in the bucket w
RoutesTo(item, w) ==
    item.date.y = w.year /\ item.date.m = w.month /\ InWeek(item.date.d, w.week)

RECURSIVE SumSeq(_)
SumSeq(q) == IF q = <<>> THEN 0 ELSE Head(q) + SumSeq(Tail(q))

\* the amounts of the items that lie in bucket w; with skipMarked, without
\* those whose category carries one of the two carry-in marks
BucketTotal(items, w, skipMarked) ==
    SumSeq([i \in 1..Len(items) |->
               IF RoutesTo(items[i], w) /\ ~(skipMarked /\ IsExcluded(items[i]))
               THEN items[i].amount ELSE 0])

\* a workbook was read successfully, or the re-upload button was pressed:
\* the steps that recompute the weekly sequence
Recomputes ==
    \/ \E i \in 1..Len(reading) : reading[i].ok /\ FileRead(i)
    \/ Reupload

\* a before b, or the same day
NotAfter(a, b) ==
    \/ a.y < b.y
    \/ a.y = b.y /\ a.m < b.m
    \/ a.y = b.y /\ a.m = b.m /\ a.d <= b.d

Dates(items) == {items[i].date : i \in 1..Len(items)}

\* the earliest transaction date, and the later of the latest one and `now`
Earliest(items) == CHOOSE d \in Dates(items) : \A e \in Dates(items) : NotAfter(d, e)

Latest(items, now) ==
    CHOOSE d \in Dates(items) \cup {now} : \A e \in Dates(items) \cup {now} : NotAfter(e, d)

\* months from the month of a to the month of b
MonthsBetween(a, b) == (b.y - a.y) * 12 + (b.m - a.m)

\* the label of the period a date falls into: "{y}nian{m}yue" for a month,
\* "{y}nian{m}yue {half}" for a half month, "{y}nian{m}yue di{w}zhou" for a week
PeriodLabel(date, granularity) ==
    LET wk == CHOOSE k \in 1..4 : InWeek(date.d, k)
    IN  CASE granularity = "monthly" ->
               <<ToString(date.y), "nian", ToString(date.m), "yue">>
          [] granularity = "semi-monthly" ->
               <<ToString(date.y), "nian", ToString(date.m), "yue ",
                 IF wk \in {1, 2} THEN "shang-ban-yue" ELSE "xia-ban-yue">>
          [] granularity = "weekly" ->
               <<ToString(date.y), "nian", ToString(date.m), "yue di", ToString(wk), "zhou">>

\* 1-based positions of the periods called `name`
Positions(periods, name) == {i \in 1..Len(periods) : periods[i].name = name}

---------------------------------------------------------------------------
(* C1: over the whole weekly sequence the first opening is the starting      *)
(* balance, every later opening is the previous closing, every closing is    *)
(* opening + income - expense, and a week no transaction falls into has      *)
(* closing = opening.                                                        *)
C1_BalanceChain ==
    LET W == weeklyFullData
    IN  /\ Len(W) > 0 => W[1].opening = INITIAL_BALANCE
        /\ \A i \in 2..Len(W) : W[i].opening = W[i - 1].closing
        /\ \A i \in 1..Len(W) : W[i].closing = W[i].opening + W[i].income - W[i].expense
        /\ \A i \in 1..Len(W) :
              (\A k \in 1..Len(incomes \o expenses) : ~RoutesTo((incomes \o expenses)[k], W[i]))
              => W[i].closing = W[i].opening

\* a week without transactions that carries a balance changed by an earlier week
C1_Witness ==
    \E i \in 2..Len(weeklyFullData) :
        /\ \A k \in 1..Len(incomes \o expenses) :
              ~RoutesTo((incomes \o expenses)[k], weeklyFullData[i])
        /\ weeklyFullData[i].opening # INITIAL_BALANCE
        /\ weeklyFullData[i].closing = weeklyFullData[i - 1].closing

(* C2: the weekly sequence consists of whole months of 4 buckets with        *)
(* weekOfMonth 1, 2, 3, 4 in that order, each month following the previous   *)
(* one in the calendar, whether or not a transaction falls into it.          *)
C2_BucketCompleteness ==
    LET W == weeklyFullData
    IN  /\ Len(W) % 4 = 0
        /\ \A i \in 1..Len(W) :
              /\ W[i].week = ((i - 1) % 4) + 1
              /\ W[i].month \in 1..12
        /\ \A i \in 2..Len(W) :
              IF W[i].week # 1
              THEN W[i].year = W[i - 1].year /\ W[i].month = W[i - 1].month
              ELSE \/ W[i - 1].month < 12 /\ W[i].year = W[i - 1].year
                                          /\ W[i].month = W[i - 1].month + 1
                   \/ W[i - 1].month = 12 /\ W[i].year = W[i - 1].year + 1
                                          /\ W[i].month = 1

\* a month nothing falls into, after a December, with its four empty buckets
C2_Witness ==
    \E i \in 5..Len(weeklyFullData) :
        /\ weeklyFullData[i].week = 1 /\ weeklyFullData[i].month = 1
        /\ i + 3 <= Len(weeklyFullData)
        /\ \A j \in i..(i + 3) :
              \A k \in 1..Len(incomes \o expenses \o emergencyFunds) :
                  ~RoutesTo((incomes \o expenses \o emergencyFunds)[k], weeklyFullData[j])

(* C3: under monthly granularity there is one period per month of the weekly *)
(* sequence; its income and expense are the sums over the month's 4 weeks,   *)
(* its opening is the opening of week 1, its closing the closing of week 4,  *)
(* and net = income - expense.                                               *)
C3_MonthlyAggregation ==
    viewType = "monthly" =>
        LET W == weeklyFullData
            A == aggregatedData
        IN  /\ 4 * Len(A) = Len(W)
            /\ \A i \in 1..Len(A) :
                  LET w1 == W[4 * i - 3]
                      w2 == W[4 * i - 2]
                      w3 == W[4 * i - 1]
                      w4 == W[4 * i]
                  IN  /\ A[i].year = w1.year /\ A[i].month = w1.month
                      /\ w1.week = 1 /\ w4.week = 4
                      /\ w4.year = w1.year /\ w4.month = w1.month
                      /\ A[i].weeks = <<w1, w2, w3, w4>>
                      /\ A[i].income = w1.income + w2.income + w3.income + w4.income
                      /\ A[i].expense = w1.expense + w2.expense + w3.expense + w4.expense
                      /\ A[i].opening = w1.opening
                      /\ A[i].closing = w4.closing
                      /\ A[i].net = A[i].income - A[i].expense

\* a month with flows in two of its weeks, aggregated
C3_Witness ==
    /\ viewType = "monthly"
    /\ LET A == aggregatedData
       IN  \E i \in 1..Len(A) :
              /\ Cardinality({k \in 1..4 : A[i].weeks[k].income # 0
                                            \/ A[i].weeks[k].expense # 0}) >= 2
              /\ A[i].opening # A[i].closing
              /\ A[i].opening # A[i].weeks[4].opening

(* C4: the emergencyFund of an aggregated period is a snapshot, not a sum: a *)
(* semi-monthly first half takes the value of week 2 of its month, a second  *)
(* half and a monthly period take the value of week 4, and the value is 0    *)
(* when the weekly sequence holds no such week.                              *)
C4_EmergencySnapshot ==
    viewType # "weekly" =>
        LET W == weeklyFullData
            A == aggregatedData
            Designated(p) == IF viewType = "semi-monthly" /\ p.subType = "shang-ban-yue"
                             THEN 2 ELSE 4
            Held(p) == {i \in 1..Len(W) : W[i].year = p.year /\ W[i].month = p.month
                                          /\ W[i].week = Designated(p)}
            OddWeeks == SelectSeq(W, LAMBDA w : w.week \in {1, 3})
        IN  /\ \A k \in 1..Len(A) :
                  /\ Cardinality(Held(A[k])) = 1
                  /\ \A i \in Held(A[k]) : A[k].emergencyFund = W[i].emergencyFund
            /\ \A k \in 1..Len(A) :
                  FinishPeriod(A[k], OddWeeks, viewType).emergencyFund = 0

\* a coarse period whose weeks sum to another value than its snapshot
C4_Witness ==
    /\ viewType # "weekly"
    /\ LET A == aggregatedData
       IN  \E k \in 1..Len(A) :
              /\ A[k].emergencyFund # 0
              /\ SumSeq([j \in 1..Len(A[k].weeks) |-> A[k].weeks[j].emergencyFund])
                    # A[k].emergencyFund

(* C5: an income whose category contains one of the two carry-in marks adds  *)
(* to no bucket's income, so every bucket's income is the total of the       *)
(* unmarked incomes that fall into it; expenses and emergency-fund entries   *)
(* are added to their bucket whatever their category.                        *)
C5_CategoryExclusion ==
    \A i \in 1..Len(weeklyFullData) :
        LET w == weeklyFullData[i]
        IN  /\ w.income = BucketTotal(incomes, w, TRUE)
            /\ w.expense = BucketTotal(expenses, w, FALSE)
            /\ w.emergencyFund = BucketTotal(emergencyFunds, w, FALSE)

\* a marked income that falls into a bucket and left it at 0, next to a marked
\* emergency-fund entry that was added to its bucket
C5_Witness ==
    /\ \E k \in 1..Len(incomes) : \E i \in 1..Len(weeklyFullData) :
          /\ Includes(incomes[k].category, OpeningBalanceMark)
          /\ RoutesTo(incomes[k], weeklyFullData[i])
          /\ incomes[k].amount # 0
          /\ weeklyFullData[i].income = 0
          /\ weeklyFullData[i].closing = weeklyFullData[i].opening
    /\ \E k \in 1..Len(emergencyFunds) : \E i \in 1..Len(weeklyFullData) :
          /\ Includes(emergencyFunds[k].category, OpeningBalanceMark)
          /\ RoutesTo(emergencyFunds[k], weeklyFullData[i])
          /\ weeklyFullData[i].emergencyFund = emergencyFunds[k].amount

(* C8, as claimed: whenever the weekly sequence is recomputed and the month   *)
(* of the later of (latest transaction, today) lies more than 120 months     *)
(* after the month of the earliest transaction, the sequence is empty.       *)
C8_AsClaimed ==
    [][Recomputes =>
          LET all == incomes' \o expenses' \o emergencyFunds'
          IN  (all # <<>> /\ MonthsBetween(Earliest(all), Latest(all, today)) > 120)
              => weeklyFullData' = <<>>]_vars

(* C8, amended: whenever the weekly sequence is recomputed and the calendar  *)
(* year of the last month of the range exceeds the calendar year of its      *)
(* first month by more than 10, the sequence is empty; so a non-empty        *)
(* sequence spans at most 11 calendar years, that is at most 132 months.     *)
C8_YearGuard ==
    [][Recomputes =>
          LET all == incomes' \o expenses' \o emergencyFunds'
          IN  /\ (all # <<>> /\ Latest(all, today).y - Earliest(all).y > 10)
                 => weeklyFullData' = <<>>
              /\ weeklyFullData' # <<>>
                 => /\ weeklyFullData'[Len(weeklyFullData')].year - weeklyFullData'[1].year <= 10
                    /\ Len(weeklyFullData') <= 4 * 132]_vars

\* a loaded workbook with rows whose range trips the guard
C8_Witness ==
    /\ isDataLoaded
    /\ incomes \o expenses \o emergencyFunds # <<>>
    /\ Latest(incomes \o expenses \o emergencyFunds, today).y
          - Earliest(incomes \o expenses \o emergencyFunds).y > 10
    /\ weeklyFullData = <<>>

(* C9: whenever the weekly sequence is recomputed from a non-empty input and *)
(* the guard does not fire, it is non-empty, its first bucket lies in the    *)
(* month of the earliest date of the three lists together, its last bucket   *)
(* in the month of the later of (latest date, today), and it holds the       *)
(* buckets of today's month unless today lies before the earliest month.     *)
C9_RangeDetermination ==
    [][Recomputes =>
          LET all == incomes' \o expenses' \o emergencyFunds'
              W == weeklyFullData'
          IN  (all # <<>> /\ Latest(all, today).y - Earliest(all).y <= 10)
              => /\ W # <<>>
                 /\ W[1].year = Earliest(all).y /\ W[1].month = Earliest(all).m
                 /\ W[Len(W)].year = Latest(all, today).y
                 /\ W[Len(W)].month = Latest(all, today).m
                 /\ MonthsBetween(Earliest(all), today) >= 0
                    => \A wk \in 1..4 : \E i \in 1..Len(W) :
                          W[i].year = today.y /\ W[i].month = today.m /\ W[i].week = wk]_vars

\* stale data: the last bucket lies in today's month, after the latest row,
\* and the first one in the month of an emergency-fund row
C9_Witness ==
    /\ isDataLoaded /\ weeklyFullData # <<>>
    /\ incomes # <<>> /\ emergencyFunds # <<>>
    /\ LET all == incomes \o expenses \o emergencyFunds
           W == weeklyFullData
       IN  /\ W[Len(W)].year = today.y /\ W[Len(W)].month = today.m
           /\ \A d \in Dates(all) : MonthsBetween(d, today) > 0
           /\ \A d \in Dates(incomes \o expenses) :
                 MonthsBetween(Earliest(emergencyFunds), d) > 0
           /\ W[1].month = Earliest(emergencyFunds).m

(* C10: whenever the default-anchor effect runs on a non-empty period         *)
(* sequence, it selects the label of the period today falls into under the   *)
(* active granularity if a period of that name exists, and the name of the   *)
(* last period otherwise; either way the anchor names a period.              *)
C10_DefaultAnchor ==
    [][(DefaultAnchorEffect /\ Len(aggregatedData) > 0) =>
          LET A == aggregatedData
              label == PeriodLabel(today, viewType)
          IN  /\ selectedFilter' = IF Positions(A, label) # {} THEN label
                                   ELSE A[Len(A)].name
              /\ Positions(A, selectedFilter') # {}]_vars

\* the effect has run where no period carries today's label: the anchor is
\* the last period
C10_Witness ==
    /\ isDataLoaded /\ ~effectPending
    /\ LET A == aggregatedData
       IN  /\ Len(A) > 1
           /\ Positions(A, PeriodLabel(today, viewType)) = {}
           /\ selectedFilter = A[Len(A)].name

(* C6: the window has at most 4 elements and is a contiguous run of the      *)
(* period sequence; when the anchor names a period it starts at that period  *)
(* and holds 4 periods, or all that remain if fewer; when the anchor names   *)
(* no period it is the last 4 periods. Stated of the window of every render  *)
(* whose default-anchor effect has run.                                      *)
C6_AsClaimed ==
    ~effectPending =>
    LET P == aggregatedData
        D == displayBlocks
        n == Len(P)
        at == Positions(P, selectedFilter)
    IN  /\ Len(D) <= 4
        /\ \E s \in 0..n : D = SubSeq(P, s + 1, s + Len(D))
        /\ at # {} =>
              \E i \in at :
                  /\ \A j \in at : i <= j
                  /\ D = SubSeq(P, i, IF i + 3 <= n THEN i + 3 ELSE n)
                  /\ D[1].name = selectedFilter
        /\ at = {} => D = SubSeq(P, IF n > 4 THEN n - 3 ELSE 1, n)

\* the same contract on the main screen, that is while isDataLoaded
C6_WhileLoaded == isDataLoaded => C6_AsClaimed

(* C7: a drag step backward from index i > 0 selects periods[i-1] and does   *)
(* nothing at index 0, a step forward from index i < length-1 selects        *)
(* periods[i+1] and does nothing at the last index; a step moves the anchor  *)
(* by at most one position and never takes it out of [0, length-1].          *)
C7_StepSaturates ==
    [][\A x \in ClientXs :
          (HandleMouseMove(x) /\ Abs(x - dragStartX[1]) > threshold) =>
              LET P == aggregatedData
                  n == Len(P)
                  at == Positions(P, selectedFilter)
                  backward == x - dragStartX[1] > 0
              IN  \A i \in at :
                      /\ (backward /\ i > 1) => selectedFilter' = P[i - 1].name
                      /\ (backward /\ i = 1) => selectedFilter' = selectedFilter
                      /\ (~backward /\ i < n) => selectedFilter' = P[i + 1].name
                      /\ (~backward /\ i = n) => selectedFilter' = selectedFilter
                      /\ \E k \in Positions(P, selectedFilter') :
                            k \in 1..n /\ k - i \in {-1, 0, 1}]_vars

\* mid-drag with the anchor on the first of several periods, which is not
\* where the default anchor lies
C7_Witness ==
    /\ isDataLoaded /\ ~effectPending /\ isDragging /\ dragStartX # <<>>
    /\ LET P == aggregatedData
       IN  /\ Len(P) >= 3
           /\ selectedFilter = P[1].name
           /\ DefaultAnchor(P, viewType, today) # P[1].name

(* C11: under weekly granularity the period sequence has one period per      *)
(* balanced week, in the same order, with the week's name, income, expense,  *)
(* opening, closing and emergencyFund, and with a net equal to               *)
(* income - expense.                                                         *)
C11_AsClaimed ==
    viewType = "weekly" =>
        LET W == weeklyFullData
            A == aggregatedData
        IN  /\ Len(A) = Len(W)
            /\ \A i \in 1..Len(A) :
                  /\ A[i].name = W[i].name
                  /\ A[i].income = W[i].income
                  /\ A[i].expense = W[i].expense
                  /\ A[i].opening = W[i].opening
                  /\ A[i].closing = W[i].closing
                  /\ A[i].emergencyFund = W[i].emergencyFund
                  /\ "net" \in DOMAIN A[i]
                  /\ A[i].net = A[i].income - A[i].expense

\* the same without the net: the weekly periods are the balanced weeks
C11_WeeksUnchanged ==
    viewType = "weekly" =>
        /\ aggregatedData = weeklyFullData
        /\ \A i \in 1..Len(aggregatedData) : "net" \notin DOMAIN aggregatedData[i]

\* the three lists are empty
EmptyInput == incomes = <<>> /\ expenses = <<>> /\ emergencyFunds = <<>>

\* every stage of the pipeline yields the empty sequence
EmptyStages(weekly, anchor, loaded) ==
    /\ weekly = <<>>
    /\ \A vt \in ViewTypes :
          /\ AggregatedData(weekly, vt) = <<>>
          /\ DisplayBlocks(AggregatedData(weekly, vt), anchor, loaded) = <<>>

(* C12: whenever the incomes, expenses and emergency-fund lists are all      *)
(* empty, the weekly sequence is empty, the aggregated sequence is empty     *)
(* under each of the three granularities, the display window is empty, and   *)
(* a run of the default-anchor effect leaves the anchor as it was; every     *)
(* stage evaluates to a value.                                               *)
C12_EmptyInput ==
    [][/\ EmptyInput => EmptyStages(weeklyFullData, selectedFilter, isDataLoaded)
       /\ EmptyInput' => EmptyStages(weeklyFullData', selectedFilter', isDataLoaded')
       /\ (EmptyInput /\ DefaultAnchorEffect) => selectedFilter' = selectedFilter]_vars

\* an empty workbook is loaded under a coarse granularity after another one
\* had set the anchor; the effect has run and the anchor is still that name
C12_Witness ==
    /\ EmptyInput /\ isDataLoaded /\ ~effectPending
    /\ viewType # "weekly"
    /\ selectedFilter # <<>>
    /\ displayBlocks = <<>>

\* q[lo] + ... + q[hi]
RECURSIVE SumOver(_, _, _)
SumOver(q, lo, hi) ==
    IF lo > hi THEN 0
    ELSE IF lo = hi THEN q[lo]
    ELSE SumOver(q, lo, (lo + hi) \div 2) + SumOver(q, ((lo + hi) \div 2) + 1, hi)

\* the amounts of a list; with skipMarked, of its unmarked items only
ListTotal(items, skipMarked) ==
    SumSeq([i \in 1..Len(items) |->
               IF skipMarked /\ IsExcluded(items[i]) THEN 0 ELSE items[i].amount])

(* C13: whenever the weekly sequence is non-empty, the date of every         *)
(* transaction of the three lists lies in exactly one bucket (day 1-7 week   *)
(* 1, 8-14 week 2, 15-21 week 3, 22 to the end week 4) and that bucket holds *)
(* its amount; so the buckets' expenses add up to all expense amounts, the   *)
(* buckets' incomes to all unmarked income amounts, and the last closing is  *)
(* the starting balance + unmarked income - expense.                         *)
C13_Conservation ==
    LET W == weeklyFullData
        all == incomes \o expenses \o emergencyFunds
    IN  W # <<>> =>
          /\ \A k \in 1..Len(all) :
                Cardinality({i \in 1..Len(W) : RoutesTo(all[k], W[i])}) = 1
          /\ \A k \in 1..Len(expenses) : \A i \in 1..Len(W) :
                RoutesTo(expenses[k], W[i])
                => W[i].expense = BucketTotal(expenses, W[i], FALSE)
          /\ \A k \in 1..Len(incomes) : \A i \in 1..Len(W) :
                RoutesTo(incomes[k], W[i])
                => W[i].income = BucketTotal(incomes, W[i], TRUE)
          /\ SumOver([i \in 1..Len(W) |-> W[i].expense], 1, Len(W)) = ListTotal(expenses, FALSE)
          /\ SumOver([i \in 1..Len(W) |-> W[i].income], 1, Len(W)) = ListTotal(incomes, TRUE)
          /\ W[Len(W)].closing
                = INITIAL_BALANCE + ListTotal(incomes, TRUE) - ListTotal(expenses, FALSE)

\* an expense of a month before October and an unmarked income lie in
\* different buckets, and the final balance carries both
C13_Witness ==
    LET W == weeklyFullData
    IN  /\ W # <<>>
        /\ \E k \in 1..Len(expenses) : \E j \in 1..Len(incomes) :
              /\ expenses[k].date.m < 10 /\ expenses[k].amount # 0
              /\ ~IsExcluded(incomes[j]) /\ incomes[j].amount # 0
              /\ \A i \in 1..Len(W) : ~(RoutesTo(expenses[k], W[i]) /\ RoutesTo(incomes[j], W[i]))
        /\ W[Len(W)].closing # INITIAL_BALANCE

\* the place of a period in the calendar: two per month, the second half last
HalfRank(p) == 2 * (p.year * 12 + (p.month - 1)) + (IF p.subType = "xia-ban-yue" THEN 1 ELSE 0)

(* C14: under semi-monthly and under monthly granularity the periods follow  *)
(* the calendar (first half before second half, month before next month),    *)
(* the first opening is the starting balance, every later opening is the     *)
(* previous period's closing, every closing is opening + income - expense,   *)
(* and the last closing is the last closing of the weekly sequence, hence    *)
(* the same under all three granularities.                                   *)
C14_AggregatedContinuity ==
    LET W == weeklyFullData
    IN  /\ \A vt \in {"semi-monthly", "monthly"} :
              LET A == AggregatedData(W, vt)
              IN  /\ Len(A) > 0 => A[1].opening = INITIAL_BALANCE
                  /\ \A k \in 2..Len(A) :
                        /\ HalfRank(A[k - 1]) < HalfRank(A[k])
                        /\ A[k].opening = A[k - 1].closing
                  /\ \A k \in 1..Len(A) :
                        A[k].closing = A[k].opening + A[k].income - A[k].expense
        /\ W # <<>> =>
              \A vt \in ViewTypes :
                  LET A == AggregatedData(W, vt)
                  IN  Len(A) > 0 /\ A[Len(A)].closing = W[Len(W)].closing

\* half months across a year end, with flows in two of them, the later one in
\* the second week of its half
C14_Witness ==
    /\ viewType = "semi-monthly"
    /\ LET A == aggregatedData
       IN  /\ \E k \in 2..Len(A) : A[k].year = A[k - 1].year + 1
           /\ \E j \in 1..Len(A) : \E k \in (j + 1)..Len(A) :
                 /\ A[j].closing # A[j].opening
                 /\ A[k].opening # INITIAL_BALANCE
                 /\ A[k].weeks[1].closing # A[k].closing

(* C15: the lists published are those of the most recently started upload:   *)
(* when the read of an upload resolves after an upload started later has     *)
(* already published its lists, the earlier upload's result is discarded and *)
(* the incomes, expenses, emergency-fund lists and the weekly sequence stay  *)
(* those of the later upload.                                                *)
C15_AsClaimed ==
    [][\A i \in 1..Len(reading) :
          (FileRead(i) /\ reading[i].no < newest)
          => UNCHANGED <<incomes, expenses, emergencyFunds, weeklyFullData>>]_vars

\* the default-anchor effect has run for a non-empty period sequence, and the
\* anchor names a period, which is the first element of a non-empty window
AnchorSettled(periods, anchor, loaded, pending) ==
    (~pending /\ Len(periods) > 0)
    => /\ Positions(periods, anchor) # {}
       /\ DisplayBlocks(periods, anchor, loaded) # <<>>
       /\ DisplayBlocks(periods, anchor, loaded)[1].name = anchor

(* C16: in every state where the default-anchor effect has run for the       *)
(* current, non-empty period sequence, the anchor is the name of one of its  *)
(* periods and the window is non-empty and starts at the anchor; a           *)
(* granularity change schedules the effect, which sets the anchor to the     *)
(* default anchor of the new sequence; a drag step or a dropdown selection   *)
(* does not schedule the effect, so the anchor it set stays.                 *)
C16_AsClaimed ==
    [][/\ AnchorSettled(aggregatedData, selectedFilter, isDataLoaded, effectPending)
       /\ AnchorSettled(AggregatedData(weeklyFullData', viewType'), selectedFilter',
                        isDataLoaded', effectPending')
       /\ (\E v \in ViewTypes : SetViewType(v)) => effectPending'
       /\ (DefaultAnchorEffect /\ Len(aggregatedData) > 0)
          => selectedFilter' = DefaultAnchor(AggregatedData(weeklyFullData', viewType'),
                                             viewType', today')
       /\ ((\E i \in 1..Len(aggregatedData) : SelectFilter(i))
           \/ (\E x \in ClientXs : HandleMouseMove(x)))
          => effectPending' = effectPending]_vars

\* the same on the main screen, that is while isDataLoaded
C16_WhileLoaded ==
    [][/\ isDataLoaded
          => AnchorSettled(aggregatedData, selectedFilter, isDataLoaded, effectPending)
       /\ isDataLoaded'
          => AnchorSettled(AggregatedData(weeklyFullData', viewType'), selectedFilter',
                           isDataLoaded', effectPending')
       /\ (\E v \in ViewTypes : SetViewType(v)) => effectPending'
       /\ (DefaultAnchorEffect /\ Len(aggregatedData) > 0)
          => selectedFilter' = DefaultAnchor(AggregatedData(weeklyFullData', viewType'),
                                             viewType', today')
       /\ ((\E i \in 1..Len(aggregatedData) : SelectFilter(i))
           \/ (\E x \in ClientXs : HandleMouseMove(x)))
          => effectPending' = effectPending]_vars

====
